---- MODULE Spec2Model ----
(***************************************************************************)
(* State-machine model of the two form widgets of automation-frontend:     *)
(*   - FIS13AddonSelect (src/unnamed/part_000): the add-on selector;       *)
(*   - TRVSelect (trv-select.tsx): the multi-row item selection form.      *)
(* Each widget owns its React state; the widgets share nothing, so each    *)
(* has its own next-state relation and specification (SpecAddon, SpecTRV). *)
(* A JavaScript string that the code builds or parses is a sequence of     *)
(* one-character strings; an id that the code only passes around is an     *)
(* atomic TLA+ string.                                                     *)
(***************************************************************************)
EXTENDS Integers, Sequences, FiniteSets, TLC

VARIABLES
    \* ---- FIS13AddonSelect
    selected,        \* useState<SelectedAddOn[]>: sequence of [id, quantity]
    isSubmitting,    \* useState(false)
    pending,         \* submitEvent promises not yet settled: sequence of formData
    errorToasts,     \* number of toast.error calls made by handleSubmit
    run,             \* history: the current run of consecutive toggles of one id
    \* ---- TRVSelect
    flowId,                  \* the flowId prop ("" when absent)
    isPayloadEditorActive,   \* useState(false)
    errorWhilePaste,         \* useState("")
    form,                    \* react-hook-form values: provider, items, fulfillmentId
    itemOptions,             \* useState<ExtractedItem[]>([])
    fulfillmentOptions,      \* useState<CatalogFulfillment[]>([])
    submitted,               \* the formData of the submitEvent call made by the last step
    pasted,                  \* how the handlePaste call made by the last step ended
    pastedPayload            \* history, kept by SpecPaste alone: the payload of that call

addonVars == <<selected, isSubmitting, pending, errorToasts, run>>

trvVars == <<flowId, isPayloadEditorActive, errorWhilePaste, form, itemOptions,
             fulfillmentOptions, submitted, pasted>>

vars == <<selected, isSubmitting, pending, errorToasts, run,
          flowId, isPayloadEditorActive, errorWhilePaste, form, itemOptions,
          fulfillmentOptions, submitted, pasted, pastedPayload>>

(***************************************************************************)
(* Bounds of the model                                                     *)
(***************************************************************************)
\* longest text typed into a quantity input
MaxInputLen == 2
\* cap of the error-toast counter
MaxToasts == 2
\* most rows the item form is grown to
MaxRows == 2
\* most providers of a generated catalog payload
MaxProviders == 2

(***************************************************************************)
(* Generic helpers                                                         *)
(***************************************************************************)
Range(s) == {s[k] : k \in DOMAIN s}

RECURSIVE SeqsUpTo(_, _)
\* all sequences over S of length at most n
SeqsUpTo(S, n) ==
    IF n = 0 THEN {<<>>}
    ELSE LET shorter == SeqsUpTo(S, n - 1)
         IN  shorter \cup {Append(s, c) : s \in shorter, c \in S}

Max2(a, b) == IF a >= b THEN a ELSE b
Min2(a, b) == IF a <= b THEN a ELSE b

(***************************************************************************)
(* FIS13AddonSelect: data                                                  *)
(***************************************************************************)
\* referenceData.selected_add_ons: offer A declares quantity.maximum.count,
\* offer B declares no maximum
addOns == << [id |-> "A", maximum |-> 2], [id |-> "B"] >>

OfferIds == {addOns[k].id : k \in DOMAIN addOns}

DefaultMaxCount == 10

\* const maxCount = addon.quantity?.maximum?.count ?? 10
maxCount(addon) ==
    IF "maximum" \in DOMAIN addon THEN addon.maximum ELSE DefaultMaxCount

Offer(id) == CHOOSE a \in Range(addOns) : a.id = id

\* selected.some((s) => s.id === addon.id)
isSelected(sel, id) == \E k \in DOMAIN sel : sel[k].id = id

(***************************************************************************)
(* JavaScript number <-> string conversions used by the widget             *)
(***************************************************************************)
Digits == <<"0", "1", "2", "3", "4", "5", "6", "7", "8", "9">>
DigitChars == Range(Digits)
DigitVal(c) == (CHOOSE k \in DOMAIN Digits : Digits[k] = c) - 1

NaN == [nan |-> TRUE, v |-> 0]
Num(n) == [nan |-> FALSE, v |-> n]

RECURSIVE LeadingDigits(_)
\* the longest prefix of s made of decimal digits
LeadingDigits(s) ==
    IF s = <<>> \/ Head(s) \notin DigitChars THEN <<>>
    ELSE <<Head(s)>> \o LeadingDigits(Tail(s))

RECURSIVE DigitsValue(_, _)
DigitsValue(ds, acc) ==
    IF ds = <<>> THEN acc ELSE DigitsValue(Tail(ds), 10 * acc + DigitVal(Head(ds)))

\* parseInt(string): optional sign, then the leading decimal digits; NaN when
\* there is none. Anything after the digits is ignored.
parseInt(s) ==
    LET neg  == s # <<>> /\ Head(s) = "-"
        body == IF s # <<>> /\ Head(s) \in {"-", "+"} THEN Tail(s) ELSE s
        ds   == LeadingDigits(body)
    IN  IF ds = <<>> THEN NaN
        ELSE Num(IF neg THEN 0 - DigitsValue(ds, 0) ELSE DigitsValue(ds, 0))

\* x || 1 on a number: NaN and 0 are falsy
OrOne(x) == IF x.nan \/ x.v = 0 THEN 1 ELSE x.v

RECURSIVE NatToString(_)
NatToString(n) ==
    IF n < 10 THEN <<Digits[n + 1]>>
    ELSE NatToString(n \div 10) \o <<Digits[(n % 10) + 1]>>

\* String(number) for an integer, as Array.prototype.join applies it
NumberToString(n) == IF n < 0 THEN <<"-">> \o NatToString(0 - n) ELSE NatToString(n)

RECURSIVE join(_, _)
\* Array.prototype.join over an array of strings
join(strs, sep) ==
    IF strs = <<>> THEN <<>>
    ELSE IF Len(strs) = 1 THEN strs[1]
    ELSE strs[1] \o <<sep>> \o join(Tail(strs), sep)

(***************************************************************************)
(* FIS13AddonSelect: operations                                            *)
(***************************************************************************)
\* toggleAddon without its removal branch
toggleAddon_NoRemove(prev, id) == Append(prev, [id |-> id, quantity |-> 1])

\* the state-updater of toggleAddon
toggleAddon(prev, id) ==
    IF isSelected(prev, id)
    THEN SelectSeq(prev, LAMBDA s : s.id # id)
    ELSE Append(prev, [id |-> id, quantity |-> 1])

\* the state-updater of updateQuantity
updateQuantity(prev, id, quantity) ==
    [k \in DOMAIN prev |->
        IF prev[k].id = id THEN [prev[k] EXCEPT !.quantity = quantity] ELSE prev[k]]

\* the clamp without its upper limit
clampQuantity_NoMin(max, text) == Max2(1, OrOne(parseInt(text)))

\* the argument the quantity input's onChange passes to updateQuantity
clampQuantity(max, text) == Max2(1, Min2(max, OrOne(parseInt(text))))

\* handleSubmit without its selected.length > 0 test
buildFormData_NoLengthTest(sel) ==
    { <<"addon_ids", join([k \in DOMAIN sel |-> <<sel[k].id>>], ",")>>,
      <<"addon_quantities",
        join([k \in DOMAIN sel |-> NumberToString(sel[k].quantity)], ",")>> }

\* formData as handleSubmit builds it: a set of <<key, string>> pairs
buildFormData(sel) ==
    IF Len(sel) > 0
    THEN { <<"addon_ids", join([k \in DOMAIN sel |-> <<sel[k].id>>], ",")>>,
           <<"addon_quantities",
             join([k \in DOMAIN sel |-> NumberToString(sel[k].quantity)], ",")>> }
    ELSE {}

\* a submit button that is never disabled
SubmitEnabled_Always == TRUE

\* the submit button is rendered with disabled={isSubmitting}
SubmitEnabled == ~isSubmitting

NoRun == [active |-> FALSE, id |-> "", base |-> <<>>, odd |-> FALSE]

\* click on an offer row
ToggleClick(id) ==
    /\ selected' = toggleAddon(selected, id)
    /\ run' = IF run.active /\ run.id = id
              THEN [run EXCEPT !.odd = ~run.odd]
              ELSE [active |-> TRUE, id |-> id, base |-> selected, odd |-> TRUE]
    /\ UNCHANGED <<isSubmitting, pending, errorToasts>>

InputChars == {"-", "0", "1", "9", "e"}
QuantityTexts == SeqsUpTo(InputChars, MaxInputLen)

\* change of the quantity input of a selected offer
QuantityChange(id, text) ==
    /\ isSelected(selected, id)
    /\ selected' = updateQuantity(selected, id, clampQuantity(maxCount(Offer(id)), text))
    /\ run' = NoRun
    /\ UNCHANGED <<isSubmitting, pending, errorToasts>>

\* handleSubmit up to its await
SubmitClick ==
    /\ SubmitEnabled
    /\ isSubmitting' = TRUE
    /\ pending' = Append(pending, buildFormData(selected))
    /\ run' = NoRun
    /\ UNCHANGED <<selected, errorToasts>>

RemoveAt(s, k) == SubSeq(s, 1, k - 1) \o SubSeq(s, k + 1, Len(s))

\* submitEvent resolves: handleSubmit resumes in its finally block
SubmitResolved(k) ==
    /\ k \in DOMAIN pending
    /\ pending' = RemoveAt(pending, k)
    /\ isSubmitting' = FALSE
    /\ run' = NoRun
    /\ UNCHANGED <<selected, errorToasts>>

\* a rejection whose handler has no finally block
SubmitRejected_NoFinally(k) ==
    /\ k \in DOMAIN pending
    /\ errorToasts < MaxToasts
    /\ pending' = RemoveAt(pending, k)
    /\ errorToasts' = errorToasts + 1
    /\ run' = NoRun
    /\ UNCHANGED <<selected, isSubmitting>>

\* submitEvent rejects: catch block, then finally
SubmitRejected(k) ==
    /\ k \in DOMAIN pending
    /\ errorToasts < MaxToasts
    /\ pending' = RemoveAt(pending, k)
    /\ errorToasts' = errorToasts + 1
    /\ isSubmitting' = FALSE
    /\ run' = NoRun
    /\ UNCHANGED selected

InitAddon ==
    /\ selected = <<>>
    /\ isSubmitting = FALSE
    /\ pending = <<>>
    /\ errorToasts = 0
    /\ run = NoRun

NextAddon ==
    \/ \E id \in OfferIds : ToggleClick(id) /\ UNCHANGED <<trvVars, pastedPayload>>
    \/ \E id \in OfferIds, text \in QuantityTexts :
          QuantityChange(id, text) /\ UNCHANGED <<trvVars, pastedPayload>>
    \/ SubmitClick /\ UNCHANGED <<trvVars, pastedPayload>>
    \/ \E k \in DOMAIN pending : SubmitResolved(k) /\ UNCHANGED <<trvVars, pastedPayload>>
    \/ \E k \in DOMAIN pending : SubmitRejected(k) /\ UNCHANGED <<trvVars, pastedPayload>>

(***************************************************************************)
(* JavaScript values of a pasted payload: tagged records                   *)
(***************************************************************************)
JUndef == [t |-> "undefined"]
JNull == [t |-> "null"]
JNum(n) == [t |-> "number", n |-> n]
JStr(str) == [t |-> "string", s |-> str]
\* an object is a function from its own keys to values, an array a sequence
JObj(f) == [t |-> "object", f |-> f]
JArr(a) == [t |-> "array", a |-> a]
NoKeys == [k \in {} |-> JUndef]

Nullish(v) == v.t \in {"undefined", "null"}

\* ToBoolean
Truthy(v) ==
    CASE v.t \in {"undefined", "null"} -> FALSE
      [] v.t = "number" -> v.n # 0
      [] v.t = "string" -> v.s # ""
      [] OTHER -> TRUE

\* v.key on a value that is not null or undefined; none of the keys read by
\* the widget exists on a primitive or on an array
Prop(v, key) ==
    IF v.t = "object" /\ key \in DOMAIN v.f THEN v.f[key] ELSE JUndef

\* v?.key
OptProp(v, key) == IF Nullish(v) THEN JUndef ELSE Prop(v, key)

(***************************************************************************)
(* TRVSelect: data                                                         *)
(***************************************************************************)
FLOWS_WITH_ADD_ITEM_BUTTON ==
    { "purchase_journey_with_form_Multiple_Tickets",
      "purchase_journey_without_form_Multiple_Tickets",
      "user_cancellation_partial" }

\* values of the flowId prop: absent, outside the list, in the list
FlowIds == {"", "search", "user_cancellation_partial"}

\* defaultValues.items[0], and the row appended by Add Item; parentItemId is
\* not a key of a fresh row
DefaultRow ==
    [itemId |-> "", count |-> 1, addOns |-> <<>>, addOnsQuantity |-> 1,
     parentItemId |-> JUndef]

ErrorText == "Invalid payload structure."

\* ---- pasted payloads
TimeT1 == JObj([timestamp |-> JStr("t1")])

FulfillmentF1 ==
    JObj([id |-> JStr("F1"), type |-> JStr("ROUTE"),
          stops |-> JArr(<< JObj([type |-> JStr("START"), time |-> TimeT1,
                                  instructions |-> JObj([name |-> JStr("gate")])]),
                            JObj([type |-> JStr("END")]) >>),
          agent |-> JObj(NoKeys), vehicle |-> JObj(NoKeys)])

FulfillmentF2 == JObj([id |-> JStr("F2")])

\* declared by the second provider with the id of FulfillmentF1
FulfillmentF1Later ==
    JObj([id |-> JStr("F1"), type |-> JStr("TRIP"),
          stops |-> JArr(<< JObj([type |-> JStr("PICKUP")]) >>)])

ProviderP1 ==
    JObj([id |-> JStr("P1"),
          items |-> JArr(<< JObj([id |-> JStr("I1")]),
                            JObj([id |-> JStr("I2"), parent_item_id |-> JStr("I1"),
                                  add_ons |-> JArr(<< JObj([id |-> JStr("X")]) >>)]) >>),
          fulfillments |-> JArr(<<FulfillmentF1, FulfillmentF2>>)])

ProviderP2 ==
    JObj([id |-> JStr("P2"),
          items |-> JArr(<< JObj([id |-> JStr("I3"), parent_item_id |-> JStr("I1")]) >>),
          fulfillments |-> JArr(<<FulfillmentF1Later>>)])

OnSearch(providers) ==
    JObj([message |-> JObj([catalog |-> JObj([providers |-> providers])])])

CatalogTwoProviders == OnSearch(JArr(<<ProviderP1, ProviderP2>>))
CatalogNoProvider == OnSearch(JArr(<<>>))

\* payloads without a truthy message.catalog.providers
LackingPayloads ==
    { JNull, JUndef, JNum(5), JStr("text"), JArr(<<>>), JObj(NoKeys),
      JObj([message |-> JNull]), JObj([message |-> JObj(NoKeys)]),
      JObj([message |-> JObj([catalog |-> JNum(0)])]),
      JObj([message |-> JObj([catalog |-> JObj(NoKeys)])]),
      OnSearch(JNull), OnSearch(JNum(0)), OnSearch(JStr("")) }

\* payloads whose traversal throws: providers that is not an array, a null
\* provider after a well-formed one, items or fulfillments that cannot be
\* iterated, a null item, add_ons that is not an array
ThrowingPayloads ==
    { OnSearch(JNum(7)), OnSearch(JObj(NoKeys)),
      OnSearch(JArr(<<ProviderP1, JNull>>)),
      OnSearch(JArr(<<JObj([id |-> JStr("P1"), items |-> JNum(1)])>>)),
      OnSearch(JArr(<<JObj([id |-> JStr("P1"), fulfillments |-> JNum(1)])>>)),
      OnSearch(JArr(<<JObj([id |-> JStr("P1"), items |-> JArr(<<JNull>>)])>>)),
      OnSearch(JArr(<<JObj([id |-> JStr("P1"),
                            items |-> JArr(<<JObj([id |-> JStr("I2"),
                                                   parent_item_id |-> JStr("I1"),
                                                   add_ons |-> JNum(3)])>>)])>>)) }

CatalogPayloads == {CatalogTwoProviders, CatalogNoProvider}

Payloads == LackingPayloads \cup ThrowingPayloads \cup CatalogPayloads

(***************************************************************************)
(* TRVSelect: handlePaste                                                  *)
(***************************************************************************)
\* (item.add_ons || []).map((addon) => addon.id)
addOnIds(item) ==
    LET a    == Prop(item, "add_ons")
        list == IF Truthy(a) THEN a ELSE JArr(<<>>)
    IN  IF list.t # "array" THEN [threw |-> TRUE, ids |-> <<>>]
        ELSE IF \E k \in DOMAIN list.a : Nullish(list.a[k])
        THEN [threw |-> TRUE, ids |-> <<>>]
        ELSE [threw |-> FALSE, ids |-> [k \in DOMAIN list.a |-> Prop(list.a[k], "id")]]

RECURSIVE forEachItem_NoParentTest(_, _, _)
\* the item loop without its if (item.parent_item_id) test
forEachItem_NoParentTest(items, providerId, acc) ==
    IF items = <<>> \/ acc.threw THEN acc
    ELSE LET item == Head(items)
         IN  IF Nullish(item) THEN [acc EXCEPT !.threw = TRUE]
             ELSE LET ids == addOnIds(item)
                  IN  IF ids.threw THEN [acc EXCEPT !.threw = TRUE]
                      ELSE forEachItem_NoParentTest(Tail(items), providerId,
                             [acc EXCEPT !.results =
                                 Append(@, [itemid |-> Prop(item, "id"),
                                            parentItemId |-> Prop(item, "parent_item_id"),
                                            providerid |-> providerId,
                                            addOns |-> ids.ids])])

RECURSIVE forEachItem(_, _, _)
\* provider.items.forEach(...): acc is [threw, results, allFulfillments]
forEachItem(items, providerId, acc) ==
    IF items = <<>> \/ acc.threw THEN acc
    ELSE LET item == Head(items)
         IN  IF Nullish(item) THEN [acc EXCEPT !.threw = TRUE]
             ELSE IF ~Truthy(Prop(item, "parent_item_id"))
             THEN forEachItem(Tail(items), providerId, acc)
             ELSE LET ids == addOnIds(item)
                  IN  IF ids.threw THEN [acc EXCEPT !.threw = TRUE]
                      ELSE forEachItem(Tail(items), providerId,
                             [acc EXCEPT !.results =
                                 Append(@, [itemid |-> Prop(item, "id"),
                                            parentItemId |-> Prop(item, "parent_item_id"),
                                            providerid |-> providerId,
                                            addOns |-> ids.ids])])

\* the body of providers.forEach for one provider. A truthy fulfillments or
\* items value of the modelled payloads is an array or a value that cannot be
\* iterated.
forOneProvider(provider, acc) ==
    IF Nullish(provider) THEN [acc EXCEPT !.threw = TRUE]
    ELSE LET providerId == Prop(provider, "id")
             fs         == Prop(provider, "fulfillments")
             items      == Prop(provider, "items")
         IN  IF Truthy(fs) /\ fs.t # "array" THEN [acc EXCEPT !.threw = TRUE]
             ELSE LET pushed == IF Truthy(fs)
                                THEN [acc EXCEPT !.allFulfillments = @ \o fs.a]
                                ELSE acc
                  IN  IF ~Truthy(items) THEN pushed
                      ELSE IF items.t # "array" THEN [acc EXCEPT !.threw = TRUE]
                      ELSE forEachItem(items.a, providerId, pushed)

RECURSIVE forEachProvider(_, _)
forEachProvider(providers, acc) ==
    IF providers = <<>> \/ acc.threw THEN acc
    ELSE forEachProvider(Tail(providers), forOneProvider(Head(providers), acc))

\* the try block of handlePaste read without optional chaining:
\* parsed.message.catalog.providers throws on a missing intermediate key
pasteOutcome_NoOptionalChaining(payload) ==
    IF Nullish(payload) \/ Nullish(Prop(payload, "message"))
       \/ Nullish(Prop(Prop(payload, "message"), "catalog"))
    THEN [kind |-> "threw", results |-> <<>>, allFulfillments |-> <<>>]
    ELSE LET providers == Prop(Prop(Prop(payload, "message"), "catalog"), "providers")
         IN  IF ~Truthy(providers)
             THEN [kind |-> "returned", results |-> <<>>, allFulfillments |-> <<>>]
             ELSE IF providers.t # "array"
             THEN [kind |-> "threw", results |-> <<>>, allFulfillments |-> <<>>]
             ELSE LET r == forEachProvider(providers.a,
                              [threw |-> FALSE, results |-> <<>>, allFulfillments |-> <<>>])
                  IN  [kind |-> IF r.threw THEN "threw" ELSE "extracted",
                       results |-> r.results, allFulfillments |-> r.allFulfillments]

\* the try block of handlePaste: "returned" at the early return of line 104,
\* "threw" when the traversal raises, "extracted" when it reaches the setters
pasteOutcome(payload) ==
    LET providers == OptProp(OptProp(OptProp(payload, "message"), "catalog"), "providers")
    IN  IF ~Truthy(providers)
        THEN [kind |-> "returned", results |-> <<>>, allFulfillments |-> <<>>]
        ELSE IF providers.t # "array"
        THEN [kind |-> "threw", results |-> <<>>, allFulfillments |-> <<>>]
        ELSE LET r == forEachProvider(providers.a,
                         [threw |-> FALSE, results |-> <<>>, allFulfillments |-> <<>>])
             IN  [kind |-> IF r.threw THEN "threw" ELSE "extracted",
                  results |-> r.results, allFulfillments |-> r.allFulfillments]

\* the paste button
OpenPayloadEditor ==
    /\ isPayloadEditorActive' = TRUE
    /\ submitted' = <<>> /\ pasted' = "none"
    /\ UNCHANGED <<flowId, errorWhilePaste, form, itemOptions, fulfillmentOptions>>

\* PayloadEditor's onAdd; the catch block sets the inline error together
\* with its toast
handlePaste(payload) ==
    /\ isPayloadEditorActive
    /\ LET o == pasteOutcome(payload)
       IN  CASE o.kind = "returned" ->
                  /\ errorWhilePaste' = ""
                  /\ UNCHANGED <<itemOptions, fulfillmentOptions, isPayloadEditorActive>>
             [] o.kind = "threw" ->
                  /\ errorWhilePaste' = ErrorText
                  /\ isPayloadEditorActive' = FALSE
                  /\ UNCHANGED <<itemOptions, fulfillmentOptions>>
             [] o.kind = "extracted" ->
                  /\ errorWhilePaste' = ""
                  /\ itemOptions' = o.results
                  /\ fulfillmentOptions' = o.allFulfillments
                  /\ isPayloadEditorActive' = FALSE
    /\ pasted' = pasteOutcome(payload).kind
    /\ submitted' = <<>>
    /\ UNCHANGED <<flowId, form>>

(***************************************************************************)
(* TRVSelect: the form                                                     *)
(***************************************************************************)
\* the string option values a select renders for a list of ids
OptionValues(ids) == {ids[k].s : k \in {j \in DOMAIN ids : ids[j].t = "string"}}

ItemIdsOf(options) == OptionValues([k \in DOMAIN options |-> options[k].itemid])
FulfillmentIdsOf(options) ==
    OptionValues([k \in DOMAIN options |-> Prop(options[k], "id")])

\* text typed into the free-text item and fulfillment fields
ItemTexts == {"I2"}
FulfillmentTexts == {"F1", "ZZ"}

\* Array.prototype.find returning the last match instead of the first
findIndex_Last(ids, wanted) ==
    LET hits == {k \in DOMAIN ids : ids[k] = JStr(wanted)}
    IN  IF hits = {} THEN 0 ELSE CHOOSE k \in hits : \A j \in hits : j <= k

\* Array.prototype.find by strict equality with a string: the position of
\* the first match, 0 when there is none
findIndex(ids, wanted) ==
    LET hits == {k \in DOMAIN ids : ids[k] = JStr(wanted)}
    IN  IF hits = {} THEN 0 ELSE CHOOSE k \in hits : \A j \in hits : k <= j

\* the onChange without its reset of the row's add-ons
itemSideEffects_KeepAddOns(values, index, selectedOption) ==
    [values EXCEPT
        !.items[index].parentItemId = selectedOption.parentItemId,
        !.provider = selectedOption.providerid]

\* the three setValue calls of the item select's onChange
itemSideEffects(values, index, selectedOption) ==
    [values EXCEPT
        !.items[index].parentItemId = selectedOption.parentItemId,
        !.provider = selectedOption.providerid,
        !.items[index].addOns = <<>>]

\* renderSelectOrInput with options: change of row index's item select. The
\* select stays registered, so the row's itemId follows the chosen value.
selectItem(index, selectedId) ==
    /\ Len(itemOptions) # 0
    /\ index \in DOMAIN form.items
    /\ LET k   == findIndex([j \in DOMAIN itemOptions |-> itemOptions[j].itemid],
                            selectedId)
           set == [form EXCEPT !.items[index].itemId = selectedId]
       IN  form' = IF k # 0 THEN itemSideEffects(set, index, itemOptions[k]) ELSE set
    /\ submitted' = <<>> /\ pasted' = "none"
    /\ UNCHANGED <<flowId, isPayloadEditorActive, errorWhilePaste, itemOptions,
                   fulfillmentOptions>>

\* renderSelectOrInput without options: the registered text input
typeItem(index, text) ==
    /\ Len(itemOptions) = 0
    /\ index \in DOMAIN form.items
    /\ form' = [form EXCEPT !.items[index].itemId = text]
    /\ submitted' = <<>> /\ pasted' = "none"
    /\ UNCHANGED <<flowId, isPayloadEditorActive, errorWhilePaste, itemOptions,
                   fulfillmentOptions>>

\* the Add Ons select of row index, rendered from itemOptions[index]
selectAddOn(index, val) ==
    /\ index \in DOMAIN form.items
    /\ index \in DOMAIN itemOptions
    /\ Len(itemOptions[index].addOns) > 0
    /\ val \in {""} \cup OptionValues(itemOptions[index].addOns)
    /\ LET prev == form.items[index].addOns
       IN  form' = IF val # "" /\ val \notin Range(prev)
                   THEN [form EXCEPT !.items[index].addOns = Append(prev, val)]
                   ELSE form
    /\ submitted' = <<>> /\ pasted' = "none"
    /\ UNCHANGED <<flowId, isPayloadEditorActive, errorWhilePaste, itemOptions,
                   fulfillmentOptions>>

\* the Add Item button
addItem ==
    /\ flowId # "" /\ flowId \in FLOWS_WITH_ADD_ITEM_BUTTON
    /\ Len(form.items) < MaxRows
    /\ form' = [form EXCEPT !.items = Append(@, DefaultRow)]
    /\ submitted' = <<>> /\ pasted' = "none"
    /\ UNCHANGED <<flowId, isPayloadEditorActive, errorWhilePaste, itemOptions,
                   fulfillmentOptions>>

\* a Remove Item button rendered whatever the number of rows
removeItem_NoGuard ==
    /\ form' = [form EXCEPT !.items = SubSeq(@, 1, Len(@) - 1)]
    /\ submitted' = <<>> /\ pasted' = "none"
    /\ UNCHANGED <<flowId, isPayloadEditorActive, errorWhilePaste, itemOptions,
                   fulfillmentOptions>>

\* the Remove Item button: remove(fields.length - 1)
removeItem ==
    /\ Len(form.items) > 1
    /\ form' = [form EXCEPT !.items = SubSeq(@, 1, Len(@) - 1)]
    /\ submitted' = <<>> /\ pasted' = "none"
    /\ UNCHANGED <<flowId, isPayloadEditorActive, errorWhilePaste, itemOptions,
                   fulfillmentOptions>>

\* the fulfillment field: a text input without options, a select with them
setFulfillment(id) ==
    /\ IF Len(fulfillmentOptions) = 0 THEN id \in FulfillmentTexts \cup {""}
       ELSE id \in FulfillmentIdsOf(fulfillmentOptions) \cup {""}
    /\ form' = [form EXCEPT !.fulfillmentId = id]
    /\ submitted' = <<>> /\ pasted' = "none"
    /\ UNCHANGED <<flowId, isPayloadEditorActive, errorWhilePaste, itemOptions,
                   fulfillmentOptions>>

\* a map that copies each stop whole
trimStops_Untrimmed(fulfillment) ==
    LET stops == Prop(fulfillment, "stops")
        list  == IF Truthy(stops) THEN stops.a ELSE <<>>
    IN  [k \in DOMAIN list |-> list[k].f]

\* (selectedFulfillment.stops || []).map(stop => ({type, time})); stops of
\* the modelled payloads are arrays of objects
trimStops(fulfillment) ==
    LET stops == Prop(fulfillment, "stops")
        list  == IF Truthy(stops) THEN stops.a ELSE <<>>
    IN  [k \in DOMAIN list |->
            [type |-> Prop(list[k], "type"), time |-> Prop(list[k], "time")]]

\* the output object of onSubmit
onSubmitOutput(data, options) ==
    LET k == findIndex([j \in DOMAIN options |-> Prop(options[j], "id")],
                       data.fulfillmentId)
    IN  [provider |-> data.provider,
         items |-> data.items,
         fulfillments |->
            IF k # 0
            THEN << [id |-> Prop(options[k], "id"), stops |-> trimStops(options[k])] >>
            ELSE <<>>]

\* the Submit button: handleSubmit(onSubmit) up to the submitEvent call
onSubmit ==
    /\ submitted' = <<onSubmitOutput(form, fulfillmentOptions)>>
    /\ pasted' = "none"
    /\ UNCHANGED <<flowId, isPayloadEditorActive, errorWhilePaste, form, itemOptions,
                   fulfillmentOptions>>

InitTRV ==
    /\ flowId \in FlowIds
    /\ isPayloadEditorActive = FALSE
    /\ errorWhilePaste = ""
    /\ form = [provider |-> JStr(""), items |-> <<DefaultRow>>, fulfillmentId |-> ""]
    /\ itemOptions = <<>>
    /\ fulfillmentOptions = <<>>
    /\ submitted = <<>>
    /\ pasted = "none"

Rows == 1..MaxRows

\* The count and addOnsQuantity inputs are registered number inputs that no
\* handler of the component reads or writes; the rows keep their default
\* values for them.
NextTRV ==
    \/ OpenPayloadEditor /\ UNCHANGED <<addonVars, pastedPayload>>
    \/ \E payload \in Payloads : handlePaste(payload) /\ UNCHANGED <<addonVars, pastedPayload>>
    \/ \E index \in Rows, id \in ItemIdsOf(itemOptions) \cup {""} :
          selectItem(index, id) /\ UNCHANGED <<addonVars, pastedPayload>>
    \/ \E index \in Rows, text \in ItemTexts \cup {""} :
          typeItem(index, text) /\ UNCHANGED <<addonVars, pastedPayload>>
    \/ \E index \in Rows \cap DOMAIN itemOptions :
          \E val \in {""} \cup OptionValues(itemOptions[index].addOns) :
             selectAddOn(index, val) /\ UNCHANGED <<addonVars, pastedPayload>>
    \/ addItem /\ UNCHANGED <<addonVars, pastedPayload>>
    \/ removeItem /\ UNCHANGED <<addonVars, pastedPayload>>
    \/ \E id \in FulfillmentTexts \cup FulfillmentIdsOf(fulfillmentOptions) \cup {""} :
          setFulfillment(id) /\ UNCHANGED <<addonVars, pastedPayload>>
    \/ onSubmit /\ UNCHANGED <<addonVars, pastedPayload>>

Init == InitAddon /\ InitTRV /\ pastedPayload = JUndef

\* the add-on selector alone, beside an item form that is never touched
InitAddonAlone == Init /\ flowId = ""

SpecAddon == InitAddonAlone /\ [][NextAddon]_vars

SpecTRV == Init /\ [][NextTRV]_vars

(***************************************************************************)
(* TRVSelect: the paste editor alone, fed with generated catalogs          *)
(***************************************************************************)
\* a top-level item, a sub-item with two add-ons, an item whose
\* parent_item_id is the empty string, a sub-item without add_ons
ItemTop == JObj([id |-> JStr("I1")])
ItemTwoAddOns ==
    JObj([id |-> JStr("I5"), parent_item_id |-> JStr("I1"),
          add_ons |-> JArr(<< JObj([id |-> JStr("X")]), JObj([id |-> JStr("Y")]) >>)])
ItemEmptyParent == JObj([id |-> JStr("I6"), parent_item_id |-> JStr("")])
ItemNoAddOns == JObj([id |-> JStr("I7"), parent_item_id |-> JStr("I5")])

\* providers with items only, with items and fulfillments, with
\* fulfillments only
ProviderItemsOnly ==
    JObj([id |-> JStr("P1"),
          items |-> JArr(<<ItemTop, ItemTwoAddOns, ItemEmptyParent, ItemNoAddOns>>)])
ProviderBoth ==
    JObj([id |-> JStr("P2"), items |-> JArr(<<ItemNoAddOns, ItemTop>>),
          fulfillments |-> JArr(<<FulfillmentF2>>)])
ProviderFulfillmentsOnly ==
    JObj([id |-> JStr("P3"), fulfillments |-> JArr(<<FulfillmentF1>>)])

ProviderPool == {ProviderItemsOnly, ProviderBoth, ProviderFulfillmentsOnly, ProviderP1}

GeneratedCatalogs == {OnSearch(JArr(ps)) : ps \in SeqsUpTo(ProviderPool, MaxProviders)}

PastePayloads == Payloads \cup GeneratedCatalogs

InitPaste == Init /\ flowId = ""

NextPaste ==
    \/ OpenPayloadEditor /\ pastedPayload' = JUndef /\ UNCHANGED addonVars
    \/ \E payload \in PastePayloads :
          handlePaste(payload) /\ pastedPayload' = payload /\ UNCHANGED addonVars

SpecPaste == InitPaste /\ [][NextPaste]_vars

(***************************************************************************)
(* FIS13AddonSelect: properties                                            *)
(***************************************************************************)
EntriesOf(sel, id) == {k \in DOMAIN sel : sel[k].id = id}
Others(sel, id) == SelectSeq(sel, LAMBDA s : s.id # id)
ExactlyOneUnit(sel, id) ==
    /\ Cardinality(EntriesOf(sel, id)) = 1
    /\ \A k \in EntriesOf(sel, id) : sel[k].quantity = 1

\* C1 as stated: within a run of consecutive toggle(id) calls, started in any
\* reachable state, an even number of toggles leaves the selection set equal
\* to the set before the run and an odd number leaves exactly one entry
\* {id, quantity: 1} for the id.
C1_AsStated ==
    run.active =>
        IF run.odd THEN ExactlyOneUnit(selected, run.id)
        ELSE Range(selected) = Range(run.base)

\* C1 amended: the parity law holds for runs started where the id is not
\* selected (even: the list is the list before; odd: exactly one entry
\* {id, quantity: 1}). For a run started where the id is selected, an odd
\* number of toggles leaves no entry for the id and an even number leaves
\* exactly one entry {id, quantity: 1}, placed last; the entries of the other
\* ids keep their values and order in every case.
C1_ToggleParity ==
    run.active =>
        /\ Others(selected, run.id) = Others(run.base, run.id)
        /\ IF ~isSelected(run.base, run.id)
           THEN IF run.odd THEN ExactlyOneUnit(selected, run.id)
                ELSE selected = run.base
           ELSE IF run.odd THEN EntriesOf(selected, run.id) = {}
                ELSE /\ ExactlyOneUnit(selected, run.id)
                     /\ selected[Len(selected)].id = run.id

\* two toggles of an id that was selected with a quantity above 1 have
\* happened, and a run started from an unselected id is at an even count
C1_Witness ==
    /\ run.active /\ ~run.odd
    /\ \E k \in DOMAIN run.base : run.base[k].id = run.id /\ run.base[k].quantity > 1
    /\ Len(run.base) = 2

\* C2: at most one submitEvent call is in flight at any time.
C2_OneInFlight == Len(pending) <= 1 /\ (pending # <<>> => isSubmitting)

\* a submission is in flight after an earlier one was rejected
C2_Witness == Len(pending) = 1 /\ isSubmitting /\ errorToasts = 1

\* C5: every selected entry of an offer with maxCount >= 1 has an integer
\* quantity in [1, maxCount], whatever was typed into the quantity input.
C5_QuantityInRange ==
    \A k \in DOMAIN selected :
        LET m == maxCount(Offer(selected[k].id))
        IN  m >= 1 => selected[k].quantity \in 1..m

\* both offers sit at their maximum, which only the clamp of a typed value
\* such as "9" or "99" produces
C5_Witness ==
    /\ \E k \in DOMAIN selected : selected[k].id = "A" /\ selected[k].quantity = 2
    /\ \E k \in DOMAIN selected :
          selected[k].id = "B" /\ selected[k].quantity = DefaultMaxCount

RECURSIVE split(_, _)
\* String.prototype.split on a one-character separator
split(s, sep) ==
    IF \A k \in DOMAIN s : s[k] # sep THEN <<s>>
    ELSE LET k == CHOOSE i \in DOMAIN s : s[i] = sep /\ \A j \in 1..(i - 1) : s[j] # sep
         IN  <<SubSeq(s, 1, k - 1)>> \o split(SubSeq(s, k + 1, Len(s)), sep)

Keys(fd) == {p[1] : p \in fd}
Field(fd, key) == (CHOOSE p \in fd : p[1] = key)[2]

PayloadMatches(fd, sel) ==
    IF sel = <<>> THEN Keys(fd) = {}
    ELSE /\ Keys(fd) = {"addon_ids", "addon_quantities"}
         /\ Cardinality(fd) = 2
         /\ LET ids  == split(Field(fd, "addon_ids"), ",")
                qtys == split(Field(fd, "addon_quantities"), ",")
            IN  /\ Len(ids) = Len(sel) /\ Len(qtys) = Len(sel)
                /\ \A k \in DOMAIN sel :
                      /\ ids[k] = <<sel[k].id>>
                      /\ parseInt(qtys[k]) = Num(sel[k].quantity)
                      /\ qtys[k] = NumberToString(sel[k].quantity)

\* C6: the formData of every submitEvent call has no addon key when the
\* selection is empty, and otherwise addon_ids and addon_quantities list the
\* ids and the quantities of the selection, comma-separated, in selection
\* order, position by position.
C6_SubmitPayload ==
    [][Len(pending') > Len(pending)
          => PayloadMatches(pending'[Len(pending')], selected)]_vars

\* the example of the specification: [{A,2},{B,1}] is in flight
C6_Witness ==
    /\ pending = << { <<"addon_ids", <<"A", ",", "B">> >>,
                      <<"addon_quantities", <<"2", ",", "1">> >> } >>
    /\ selected = << [id |-> "A", quantity |-> 2], [id |-> "B", quantity |-> 1] >>

\* C7: whenever a submitEvent call settles the submitting flag is false
\* again, so that submit can be invoked again; the selection is unchanged;
\* a rejection adds exactly one error report and a resolution none.
C7_FlagCleared ==
    [][\A k \in DOMAIN pending :
          /\ Len(pending') < Len(pending)
                => /\ isSubmitting' = FALSE
                   /\ SubmitEnabled'
                   /\ selected' = selected
          /\ SubmitRejected(k) => errorToasts' = errorToasts + 1
          /\ SubmitResolved(k) => errorToasts' = errorToasts]_vars

\* a rejection has been reported, the flag is clear and the selection stands
C7_Witness ==
    /\ errorToasts = 1 /\ ~isSubmitting /\ pending = <<>>
    /\ Len(selected) = 2

(***************************************************************************)
(* TRVSelect: properties                                                   *)
(***************************************************************************)
\* C3 as stated: whenever a handlePaste call has completed, whatever the
\* pasted value, the paste editor is dismissed.
C3_EditorDismissed == pasted # "none" => isPayloadEditorActive = FALSE

\* the value at message.catalog.providers, read off the payload's structure
HasKey(v, key) == v.t = "object" /\ key \in DOMAIN v.f
LacksProviders(p) ==
    \/ ~HasKey(p, "message")
    \/ ~HasKey(p.f.message, "catalog")
    \/ ~HasKey(p.f.message.f.catalog, "providers")
    \/ p.f.message.f.catalog.f.providers.t \in {"null", "undefined"}

\* C9: a paste of a payload lacking message.catalog.providers leaves
\* itemOptions and fulfillmentOptions as they were, completes without an
\* error and leaves no paste error message.
C9_LackingPayloadFrame ==
    [][pasted' # "none" =>
          \A p \in Payloads :
             (LacksProviders(p) /\ handlePaste(p))
                 => /\ itemOptions' = itemOptions
                    /\ fulfillmentOptions' = fulfillmentOptions
                    /\ errorWhilePaste' = ""
                    /\ pasted' = "returned"]_vars

\* a paste has returned early with options of an earlier paste still loaded
C9_Witness ==
    /\ pasted = "returned"
    /\ Len(itemOptions) = 2 /\ Len(fulfillmentOptions) = 3
    /\ errorWhilePaste = ""

ProvidersOf(p) == p.f.message.f.catalog.f.providers.a

RECURSIVE ConcatFulfillments(_)
\* the fulfillments of a sequence of well-formed providers, in provider order
ConcatFulfillments(ps) ==
    IF ps = <<>> THEN <<>>
    ELSE (IF HasKey(Head(ps), "fulfillments") THEN Head(ps).f.fulfillments.a ELSE <<>>)
         \o ConcatFulfillments(Tail(ps))

\* the loaded options carrying the form's fulfillmentId
Hits == {k \in DOMAIN fulfillmentOptions :
            HasKey(fulfillmentOptions[k], "id")
            /\ fulfillmentOptions[k].f.id = JStr(form.fulfillmentId)}
First(S) == CHOOSE k \in S : \A j \in S : k <= j
Last(S) == CHOOSE k \in S : \A j \in S : j <= k

\* the stops of a loaded option reduced to type and time, read off the
\* option's structure
TypeAndTime(stop) ==
    [type |-> IF HasKey(stop, "type") THEN stop.f.type ELSE JUndef,
     time |-> IF HasKey(stop, "time") THEN stop.f.time ELSE JUndef]
StopsOf(option) ==
    IF HasKey(option, "stops")
    THEN [k \in DOMAIN option.f.stops.a |-> TypeAndTime(option.f.stops.a[k])]
    ELSE <<>>

\* C4 as stated: when several loaded options carry the submitted
\* fulfillmentId, the submission resolves to the one declared last.
C4_LaterWins ==
    (submitted # <<>> /\ Hits # {})
        => submitted[1].fulfillments
              = << [id |-> JStr(form.fulfillmentId),
                    stops |-> StopsOf(fulfillmentOptions[Last(Hits)])] >>

\* C4 amended: the fulfillment options are the concatenation, in provider
\* order, of every provider's fulfillments, and when several of them carry
\* the submitted fulfillmentId the submission resolves to the one declared
\* first.
C4_EarlierWins ==
    [][/\ pasted' # "none" =>
             \A p \in CatalogPayloads :
                handlePaste(p) => fulfillmentOptions' = ConcatFulfillments(ProvidersOf(p))
       /\ (submitted' # <<>> /\ Hits' # {})
             => submitted'[1].fulfillments
                   = << [id |-> JStr(form'.fulfillmentId),
                         stops |-> StopsOf(fulfillmentOptions'[First(Hits')])] >>]_vars

\* F1 is declared by both providers and has been submitted: the stops sent
\* are those of the first provider's F1
C4_Witness ==
    /\ submitted # <<>> /\ form.fulfillmentId = "F1"
    /\ Cardinality(Hits) = 2
    /\ fulfillmentOptions = <<FulfillmentF1, FulfillmentF2, FulfillmentF1Later>>
    /\ submitted[1].fulfillments[1].stops[1].type = JStr("START")

MatchesOf(options, id) == {k \in DOMAIN options : options[k].itemid = JStr(id)}

\* C8: a change of row index's item select to a catalog item id sets the
\* row's parentItemId and the form's provider from a catalog item with that
\* id and empties the row's addOns, leaving the other rows as they were; no
\* other step changes the provider, and typing an item id while no catalog
\* options are loaded writes nothing but the row's itemId.
C8_SelectSideEffects ==
    [][/\ (pasted' = "none" /\ submitted' = <<>> /\ itemOptions # <<>>) =>
             \A index \in Rows, id \in ItemIdsOf(itemOptions) :
                selectItem(index, id)
                   => /\ \E k \in MatchesOf(itemOptions, id) :
                            /\ form'.items[index].parentItemId = itemOptions[k].parentItemId
                            /\ form'.provider = itemOptions[k].providerid
                      /\ form'.items[index].addOns = <<>>
                      /\ Len(form'.items) = Len(form.items)
                      /\ \A j \in DOMAIN form.items :
                            j # index => form'.items[j] = form.items[j]
       /\ form'.provider # form.provider
             => \E index \in Rows, id \in ItemIdsOf(itemOptions) : selectItem(index, id)
       /\ (pasted' = "none" /\ submitted' = <<>> /\ itemOptions = <<>>) =>
             \A index \in Rows, text \in ItemTexts \cup {""} :
                typeItem(index, text)
                   => /\ form'.provider = form.provider
                      /\ \A j \in DOMAIN form.items :
                            /\ form'.items[j].parentItemId = form.items[j].parentItemId
                            /\ form'.items[j].addOns = form.items[j].addOns]_vars

\* row 1 chose I2 of provider P1 and an add-on, then row 2 chose I3 of
\* provider P2: the provider is P2 and row 1 is untouched
C8_Witness ==
    /\ Len(form.items) = 2
    /\ form.provider = JStr("P2")
    /\ form.items[1].itemId = "I2" /\ form.items[1].addOns = <<"X">>
    /\ form.items[1].parentItemId = JStr("I1")
    /\ form.items[2].itemId = "I3" /\ form.items[2].parentItemId = JStr("I1")

\* C10: the submitted output carries the form's provider and rows verbatim;
\* its fulfillments list holds exactly one object {id, stops}, the stops
\* reduced to type and time, when a loaded option has the form's
\* fulfillmentId, and is empty otherwise.
C10_SubmitOutput ==
    submitted # <<>> =>
        LET out == submitted[1]
        IN  /\ out.provider = form.provider
            /\ out.items = form.items
            /\ IF Hits = {} THEN out.fulfillments = <<>>
               ELSE /\ Len(out.fulfillments) = 1
                    /\ DOMAIN out.fulfillments[1] = {"id", "stops"}
                    /\ out.fulfillments[1].id = JStr(form.fulfillmentId)
                    /\ \A k \in DOMAIN out.fulfillments[1].stops :
                          DOMAIN out.fulfillments[1].stops[k] = {"type", "time"}
                    /\ \E h \in Hits :
                          out.fulfillments[1].stops = StopsOf(fulfillmentOptions[h])

\* a two-row form was submitted with the loaded fulfillment F1, whose first
\* stop carries instructions in the catalog
C10_Witness ==
    /\ submitted # <<>> /\ form.fulfillmentId = "F1" /\ Hits # {}
    /\ Len(submitted[1].items) = 2
    /\ submitted[1].fulfillments[1].stops
          = << [type |-> JStr("START"), time |-> TimeT1],
               [type |-> JStr("END"), time |-> JUndef] >>

\* a free-text fulfillment id was submitted while no option was loaded
C10_FreeTextReached ==
    /\ submitted # <<>> /\ form.fulfillmentId = "ZZ" /\ fulfillmentOptions = <<>>

(***************************************************************************)
(* TRVSelect: item extraction                                              *)
(***************************************************************************)
\* an item declares a parent item id: the key holds a non-empty string
DeclaresParent(item) ==
    /\ HasKey(item, "parent_item_id")
    /\ item.f.parent_item_id.t = "string"
    /\ item.f.parent_item_id.s # ""

ItemsOf(provider) == IF HasKey(provider, "items") THEN provider.f.items.a ELSE <<>>

\* the positions <<provider, item>> of the items that declare a parent
SubItemPositions(ps) ==
    UNION { { <<i, j>> : j \in {n \in DOMAIN ItemsOf(ps[i]) :
                                   DeclaresParent(ItemsOf(ps[i])[n])} } :
            i \in DOMAIN ps }

\* provider order, then item order
Before(a, b) == a[1] < b[1] \/ (a[1] = b[1] /\ a[2] < b[2])
Rank(pos, S) == Cardinality({q \in S : Before(q, pos)}) + 1

EntryAt(ps, pos) ==
    LET item == ItemsOf(ps[pos[1]])[pos[2]]
    IN  [itemid |-> item.f.id,
         parentItemId |-> item.f.parent_item_id,
         providerid |-> ps[pos[1]].f.id,
         addOns |-> IF HasKey(item, "add_ons")
                    THEN [k \in DOMAIN item.f.add_ons.a |-> item.f.add_ons.a[k].f.id]
                    ELSE <<>>]

\* C11: after a successful paste of a catalog, itemOptions holds exactly one
\* entry {itemid, parentItemId, providerid, addOns} per provider item that
\* declares a parent item id, in provider order then item order, with the
\* owning provider's id and the item's add-on ids in order; the other items
\* have no entry and nothing of the previous options is left.
C11_ItemExtraction ==
    pastedPayload \in GeneratedCatalogs \cup CatalogPayloads =>
        LET ps == ProvidersOf(pastedPayload)
            S  == SubItemPositions(ps)
        IN  /\ pasted = "extracted"
            /\ Len(itemOptions) = Cardinality(S)
            /\ \A pos \in S : itemOptions[Rank(pos, S)] = EntryAt(ps, pos)

\* the catalog <<ProviderBoth, ProviderItemsOnly>> has been pasted: I7 of P2
\* comes first, then I5 of P1 with its two add-ons in order and I7 of P1;
\* the top-level items and the item with an empty parent id have no entry
C11_Witness ==
    /\ pasted = "extracted"
    /\ pastedPayload = OnSearch(JArr(<<ProviderBoth, ProviderItemsOnly>>))
    /\ itemOptions =
          << [itemid |-> JStr("I7"), parentItemId |-> JStr("I5"),
              providerid |-> JStr("P2"), addOns |-> <<>>],
             [itemid |-> JStr("I5"), parentItemId |-> JStr("I1"),
              providerid |-> JStr("P1"), addOns |-> <<JStr("X"), JStr("Y")>>],
             [itemid |-> JStr("I7"), parentItemId |-> JStr("I5"),
              providerid |-> JStr("P1"), addOns |-> <<>>] >>

(***************************************************************************)
(* TRVSelect: rows                                                         *)
(***************************************************************************)
\* C12: the form always has at least one row; a step that shortens the row
\* list needs more than one row and removes exactly the last one; a step
\* that lengthens it needs a flow identifier of the allow-list and appends
\* one row after the unchanged earlier ones; for any other flow identifier
\* the form has exactly one row.
C12_RowFloor ==
    [][/\ Len(form.items) >= 1 /\ Len(form'.items) >= 1
       /\ flowId \notin FLOWS_WITH_ADD_ITEM_BUTTON
             => Len(form.items) = 1 /\ Len(form'.items) = 1
       /\ Len(form'.items) < Len(form.items)
             => /\ Len(form.items) > 1
                /\ form'.items = SubSeq(form.items, 1, Len(form.items) - 1)
       /\ Len(form'.items) > Len(form.items)
             => /\ flowId \in FLOWS_WITH_ADD_ITEM_BUTTON
                /\ Len(form'.items) = Len(form.items) + 1
                /\ SubSeq(form'.items, 1, Len(form.items)) = form.items
       /\ removeItem => Len(form.items) > 1]_vars

\* in an allow-listed flow a fresh row stands after a filled first row, the
\* provider being the one of an item chosen in a row since removed
C12_Witness ==
    /\ flowId \in FLOWS_WITH_ADD_ITEM_BUTTON
    /\ Len(form.items) = 2
    /\ form.items[1].itemId = "I2" /\ form.items[1].addOns = <<"X">>
    /\ form.items[2] = DefaultRow
    /\ form.provider = JStr("P2")

\* the add-on ids of the catalog items carrying a given item id
AddOnsOfItem(id) ==
    UNION { OptionValues(itemOptions[k].addOns) : k \in MatchesOf(itemOptions, id) }

\* C13 as stated: in every reachable state each row's addOns has no
\* duplicate id, and every id in it is an add-on id of the catalog item
\* selected as the row's itemId.
C13_AddOnsOfRowItem ==
    \A i \in DOMAIN form.items :
        /\ \A a, b \in DOMAIN form.items[i].addOns :
              form.items[i].addOns[a] = form.items[i].addOns[b] => a = b
        /\ Range(form.items[i].addOns) \subseteq AddOnsOfItem(form.items[i].itemId)

\* the first row holds item I3, which has no add-on, with the add-on X of I2
C13_StrayAddOnReached ==
    /\ form.items[1].itemId = "I3" /\ form.items[1].addOns = <<"X">>
    /\ Len(itemOptions) = 2

====
